---- MODULE Spec2Model ----
(***************************************************************************)
(* Pay-to-view access control of the Walrus/Seal NFT dapp.                 *)
(*                                                                         *)
(* The model covers the Move module 0x0::seal_access                       *)
(* (contracts/sources/seal_access.move): the shared PaymentRegistry        *)
(* objects, the entry function seal_approve, the view function has_paid    *)
(* and the entry function init_registry.  Transactions are submitted to a  *)
(* pool and executed one at a time in any order; an aborted transaction    *)
(* commits none of its writes.                                             *)
(***************************************************************************)
EXTENDS Integers, Sequences, FiniteSets, TLC

\* ------------------------------------------------------------------------
\* Bounds of the model
\* ------------------------------------------------------------------------
MaxTx == 2
\* handleDecrypt invocations of one NFTCard
MaxClicks == 2

\* object ids that object::new(ctx) hands to PaymentRegistry objects
RegistryIds == { 1, 2 }

\* content_id: vector<u8>
ContentIds == { <<1>>, <<2>> }
\* ctx.sender(): address
Addresses == { "0xA", "0xB" }
\* coin::value(fee_coin): u64, in MIST
CoinValues == { 0, 4999999, 5000000 }

\* ------------------------------------------------------------------------
\* sui::table and sui::coin, as far as seal_access uses them
\* ------------------------------------------------------------------------
NoAbort == "none"
ENotPaid == "ENotPaid"
EFieldAlreadyExists == "EFieldAlreadyExists"
EFieldDoesNotExist == "EFieldDoesNotExist"

\* table::new(ctx): a table without entries
table_new == << >>

table_contains(t, k) == k \in DOMAIN t

\* table::add aborts when the key is already present
table_add(t, k, v) ==
    IF k \in DOMAIN t
    THEN [abort |-> EFieldAlreadyExists, table |-> t]
    ELSE [abort |-> NoAbort,
          table |-> [x \in (DOMAIN t) \cup {k} |-> IF x = k THEN v ELSE t[x]]]

\* table::borrow / table::borrow_mut abort when the key is missing
table_borrow(t, k) ==
    IF k \in DOMAIN t
    THEN [abort |-> NoAbort, value |-> t[k]]
    ELSE [abort |-> EFieldDoesNotExist, value |-> table_new]

\* writing back through the &mut reference obtained by table::borrow_mut
table_store(t, k, v) == [t EXCEPT ![k] = v]

coin_value(fee_coin) == fee_coin.value

\* struct Coin<SUI>, as far as the module sees it: its balance and its owner
Coin(value, owner) == [value |-> value, owner |-> owner]

\* ------------------------------------------------------------------------
\* seal_access
\* ------------------------------------------------------------------------
\* let required = 5_000_000
required == 5000000

\* struct PaymentRegistry { id, payments }
PaymentRegistry(id, payments) == [id |-> id, payments |-> payments]

\* Result of running a function body: how it left (exit), the value it
\* returned (ret, has_paid only) and the registry as the body left it.
Result(exit, ret, registry) == [exit |-> exit, ret |-> ret, registry |-> registry]

Aborts == { ENotPaid, EFieldAlreadyExists, EFieldDoesNotExist }

\* assert!(payment_amount >= required, ENotPaid)
PaysStrictlyMore(payment_amount) == payment_amount > required
PaysEnough(payment_amount) == payment_amount >= required

\* seal_approve, lines 104-108: the fee assertion and the record insertion
RecordPayment_storing_false(registry, content_id, content_payments, user_addr, payment_amount) ==
    IF ~PaysEnough(payment_amount)
    THEN Result(ENotPaid, FALSE, registry)
    ELSE LET added == table_add(content_payments, user_addr, FALSE)
         IN  IF added.abort # NoAbort
             THEN Result(added.abort, FALSE, registry)
             ELSE Result("PaymentAccepted", FALSE,
                         [registry EXCEPT !.payments =
                             table_store(registry.payments, content_id, added.table)])
RecordPayment(registry, content_id, content_payments, user_addr, payment_amount) ==
    IF ~PaysEnough(payment_amount)
    THEN Result(ENotPaid, FALSE, registry)
    ELSE LET added == table_add(content_payments, user_addr, TRUE)
         IN  IF added.abort # NoAbort
             THEN Result(added.abort, FALSE, registry)
             ELSE Result("PaymentAccepted", FALSE,
                         [registry EXCEPT !.payments =
                             table_store(registry.payments, content_id, added.table)])

\* Variant of lines 92-95 that installs a new payment table unconditionally.
EnsureContentTable_reset(registry, content_id) ==
    Result(NoAbort, FALSE,
           [registry EXCEPT !.payments =
               [x \in (DOMAIN registry.payments) \cup {content_id} |->
                   IF x = content_id THEN table_new ELSE registry.payments[x]]])

\* seal_approve, lines 92-95: create the payment table of a new content id
EnsureContentTable(registry, content_id) ==
    IF ~table_contains(registry.payments, content_id)
    THEN LET added == table_add(registry.payments, content_id, table_new)
         IN  Result(added.abort, FALSE, [registry EXCEPT !.payments = added.table])
    ELSE Result(NoAbort, FALSE, registry)

\* Variant of seal_approve without the early return of line 101.
seal_approve_no_return(content_id, registry, fee_coin, sender) ==
    LET user_addr == sender
        payment_amount == coin_value(fee_coin)
        ensured == EnsureContentTable(registry, content_id)
    IN  IF ensured.exit # NoAbort
        THEN ensured
        ELSE LET borrowed == table_borrow(ensured.registry.payments, content_id)
             IN  IF borrowed.abort # NoAbort
                 THEN Result(borrowed.abort, FALSE, ensured.registry)
                 ELSE RecordPayment(ensured.registry, content_id, borrowed.value,
                                    user_addr, payment_amount)

\* Variant of seal_approve that asserts the fee before looking up the payer.
seal_approve_assert_first(content_id, registry, fee_coin, sender) ==
    LET user_addr == sender
        payment_amount == coin_value(fee_coin)
        ensured == EnsureContentTable(registry, content_id)
    IN  IF ensured.exit # NoAbort
        THEN ensured
        ELSE LET borrowed == table_borrow(ensured.registry.payments, content_id)
             IN  IF borrowed.abort # NoAbort
                 THEN Result(borrowed.abort, FALSE, ensured.registry)
                 ELSE IF ~PaysEnough(payment_amount)
                 THEN Result(ENotPaid, FALSE, ensured.registry)
                 ELSE IF table_contains(borrowed.value, user_addr)
                 THEN Result("AlreadyPaid", FALSE, ensured.registry)
                 ELSE RecordPayment(ensured.registry, content_id, borrowed.value,
                                    user_addr, payment_amount)

\* Variant of seal_approve that records the payment in the table of every
\* content id the registry knows, not only in the one named by content_id.
seal_approve_all_contents(content_id, registry, fee_coin, sender) ==
    LET user_addr == sender
        payment_amount == coin_value(fee_coin)
        ensured == EnsureContentTable(registry, content_id)
    IN  IF ensured.exit # NoAbort
        THEN ensured
        ELSE LET borrowed == table_borrow(ensured.registry.payments, content_id)
             IN  IF borrowed.abort # NoAbort
                 THEN Result(borrowed.abort, FALSE, ensured.registry)
                 ELSE IF table_contains(borrowed.value, user_addr)
                 THEN Result("AlreadyPaid", FALSE, ensured.registry)
                 ELSE IF ~PaysEnough(payment_amount)
                 THEN Result(ENotPaid, FALSE, ensured.registry)
                 ELSE Result("PaymentAccepted", FALSE,
                        [ensured.registry EXCEPT !.payments =
                           [c \in DOMAIN ensured.registry.payments |->
                              [a \in (DOMAIN ensured.registry.payments[c]) \cup {user_addr}
                                 |-> TRUE]]])

\* Variant of seal_approve that lets a sender through as soon as anybody has
\* paid for the content.
seal_approve_any_payer(content_id, registry, fee_coin, sender) ==
    LET user_addr == sender
        payment_amount == coin_value(fee_coin)
        ensured == EnsureContentTable(registry, content_id)
    IN  IF ensured.exit # NoAbort
        THEN ensured
        ELSE LET borrowed == table_borrow(ensured.registry.payments, content_id)
             IN  IF borrowed.abort # NoAbort
                 THEN Result(borrowed.abort, FALSE, ensured.registry)
                 ELSE IF DOMAIN borrowed.value # {}
                 THEN Result("AlreadyPaid", FALSE, ensured.registry)
                 ELSE RecordPayment(ensured.registry, content_id, borrowed.value,
                                    user_addr, payment_amount)

\* entry fun seal_approve(content_id, registry, fee_coin, ctx); sender is
\* ctx.sender().  Exits: "AlreadyPaid" is the return of line 101,
\* "PaymentAccepted" the end of the body after line 108, anything else an abort.
seal_approve(content_id, registry, fee_coin, sender) ==
    LET user_addr == sender
        payment_amount == coin_value(fee_coin)
        ensured == EnsureContentTable(registry, content_id)
    IN  IF ensured.exit # NoAbort
        THEN ensured
        ELSE LET borrowed == table_borrow(ensured.registry.payments, content_id)
             IN  IF borrowed.abort # NoAbort
                 THEN Result(borrowed.abort, FALSE, ensured.registry)
                 ELSE IF table_contains(borrowed.value, user_addr)
                 THEN Result("AlreadyPaid", FALSE, ensured.registry)
                 ELSE RecordPayment(ensured.registry, content_id, borrowed.value,
                                    user_addr, payment_amount)

\* Variant of has_paid that only looks at the outer table.
has_paid_outer_only(registry, content_id, user_addr) ==
    Result("return", table_contains(registry.payments, content_id), registry)

\* Variant of has_paid that creates the missing inner table before borrowing.
has_paid_creating(registry, content_id, user_addr) ==
    LET ensured == EnsureContentTable(registry, content_id)
        borrowed == table_borrow(ensured.registry.payments, content_id)
    IN  Result("return", table_contains(borrowed.value, user_addr), ensured.registry)

\* public fun has_paid(registry, content_id, user_addr): bool
has_paid(registry, content_id, user_addr) ==
    IF ~table_contains(registry.payments, content_id)
    THEN Result("return", FALSE, registry)
    ELSE LET borrowed == table_borrow(registry.payments, content_id)
         IN  IF borrowed.abort # NoAbort
             THEN Result(borrowed.abort, FALSE, registry)
             ELSE Result("return", table_contains(borrowed.value, user_addr), registry)

\* Variant in which a recorded payment moves the fee out of the coin.
fee_coin_charged(fee_coin, exit) ==
    IF exit = "PaymentAccepted"
    THEN [fee_coin EXCEPT !.value = fee_coin.value - required]
    ELSE fee_coin

\* The coin as seal_approve leaves it.  fee_coin is an immutable reference
\* (line 84) and the body only reads coin::value (line 89): no exit of the
\* function splits, transfers or destroys the coin.
fee_coin_after(fee_coin, exit) == fee_coin

\* A transaction that aborts commits none of its writes.
CommitAlways(before, result) == result.registry
Commit(before, result) ==
    IF result.exit \in Aborts THEN before ELSE result.registry

\* ------------------------------------------------------------------------
\* State
\* ------------------------------------------------------------------------
VARIABLES
    registries,  \* the shared PaymentRegistry objects, by object id 1..Len
    txs,         \* seal_approve transactions in submission order
    view,        \* the last has_paid call and what it returned
    config,      \* what the dapp build and the rendered NFT provide
    card,        \* one NFTCard: whether it is rendered, what its state setters
                 \* were last called with, and its window listeners
    run,         \* the handleDecrypt invocation of that card: position and locals
    form,        \* NFTMintForm: its configuration, state and the upload in flight
    walrus,      \* the blobs the Walrus publisher has stored
    nfts         \* the TestnetNFT objects minted so far, by index

ledgerVars == << registries, txs, view >>
dappVars == << config, card, run >>
mintVars == << form, walrus, nfts >>
vars == << registries, txs, view, config, card, run, form, walrus, nfts >>

Pending == "pending"

Tx(registry, content_id, fee_coin, sender) ==
    [registry |-> registry, content_id |-> content_id, fee_coin |-> fee_coin,
     sender |-> sender, exit |-> Pending, coin_after |-> fee_coin]

NoView == [called |-> FALSE, exit |-> "none", ret |-> FALSE]

\* fun init(ctx): runs once when the package is published
init == << PaymentRegistry(1, table_new) >>

\* ------------------------------------------------------------------------
\* NFTGallery.tsx: NFTCard and handleDecrypt
\* ------------------------------------------------------------------------
\* The card of one NFT of the connected account.  encryptedBlobId is the
\* NFT's url field, the content id are its bytes (TextEncoder, line 351).
Account == "0xA"
CardContent == << 1 >>
\* the registry object VITE_PAYMENT_REGISTRY_ID names
PAYMENT_REGISTRY_ID == 1

\* A card is rendered only for a connected account and a configured package
\* id (lines 108-122), so both are present; the rest may be missing.
Config(sealClient, encryptedBlobId, registryId, aggregator) ==
    [sealClient |-> sealClient, encryptedBlobId |-> encryptedBlobId,
     account |-> TRUE, packageId |-> TRUE,
     registryId |-> registryId, aggregator |-> aggregator]

ConfigComplete == Config(TRUE, TRUE, TRUE, TRUE)

Configs ==
    { ConfigComplete, Config(FALSE, TRUE, TRUE, TRUE), Config(TRUE, FALSE, TRUE, TRUE),
      Config(TRUE, TRUE, FALSE, TRUE), Config(TRUE, TRUE, TRUE, FALSE) }

\* Messages are sequences of text parts; << >> is the empty string.
NoMessage == << >>

\* A thrown or rejected value: an Error with its message, a string, some
\* other object, undefined or null.
Err(kind, message) == [kind |-> kind, message |-> message]

\* what fetch, arrayBuffer, getCoins and the wallet reject with
Rejections ==
    { Err("Error", << "request failed" >>), Err("Error", NoMessage),
      Err("undefined", NoMessage) }

\* `e instanceof Error ? e.message : String(e)` (lines 309, 327, 412, 479)
ErrorText(e) ==
    CASE e.kind = "Error" -> e.message
      [] e.kind = "string" -> e.message
      [] e.kind = "undefined" -> << "undefined" >>
      [] e.kind = "null" -> << "null" >>
      [] OTHER -> << "[object Object]" >>

\* throw new Error(`<prefix>: ${...}`)
Wrapped(prefix, e) == Err("Error", << prefix >> \o ErrorText(e))

\* the message the outer catch block computes, lines 589-627
CatchMessage(e) ==
    CASE e.kind = "Error" ->
            IF e.message # NoMessage THEN e.message ELSE << "Error" >>
      [] e.kind = "string" -> e.message
      [] e.kind = "object" ->
            IF e.message # NoMessage THEN e.message ELSE << "[object Object]" >>
      [] OTHER -> << "Decryption failed" >>

\* useState initial values (lines 225-227); no listener registered
InitCard ==
    [mounted |-> TRUE, decryptedImageUrl |-> "", isDecrypting |-> FALSE,
     decryptError |-> NoMessage, listeners |-> 0]

NoSessionKey == [id |-> 0, signed |-> FALSE]
NoCoin == Coin(0, "none")

\* the locals of handleDecrypt before anything is assigned
NoLocals == [encryptedBytes |-> 0, sessionKey |-> NoSessionKey,
             paymentCoin |-> NoCoin, txBytes |-> FALSE]

\* n counts the invocations, trace lists the external calls this invocation
\* has made, failure names why it ended, evaluation is the exit of the
\* seal_approve evaluation the key servers made for it.
InitRun ==
    [n |-> 0, pc |-> "idle", trace |-> << >>, failure |-> "none",
     evaluation |-> "none", locals |-> NoLocals]

\* the finally block, lines 629-633
Finally_leaking(c) == [c EXCEPT !.isDecrypting = FALSE]
Finally(c) == [c EXCEPT !.isDecrypting = FALSE, !.listeners = @ - 1]

\* the catch block, line 628, followed by the finally block
Catch(c, e) == Finally([c EXCEPT !.decryptError = CatchMessage(e)])

\* handleDecrypt returns and its locals go out of scope
KeepLocals(r, failure) == [r EXCEPT !.pc = "idle", !.failure = failure]
Return(r, failure) ==
    [r EXCEPT !.pc = "idle", !.failure = failure, !.locals = NoLocals]

\* a throw inside the try block: catch, finally, return
Throw(c, r, e, failure) == [card |-> Catch(c, e), run |-> Return(r, failure)]

\* an await on an external call: the call is made and handleDecrypt suspends
Await(c, r, call) ==
    [card |-> c, run |-> [r EXCEPT !.pc = call, !.trace = Append(@, call)]]

\* handleDecrypt, lines 235-274: the guards, the set-up and the fetch call
Start_keeping_error(c, r, cfg) ==
    LET r0 == [r EXCEPT !.n = @ + 1, !.trace = << >>, !.failure = "none",
                        !.evaluation = "none", !.locals = NoLocals]
    IN  IF ~cfg.sealClient \/ ~cfg.encryptedBlobId \/ ~cfg.account
        THEN [card |-> [c EXCEPT !.decryptError =
                  << "Seal client not available, no encrypted blob ID, or wallet not connected" >>],
              run |-> Return(r0, "Configuration")]
        ELSE IF ~cfg.registryId
        THEN [card |-> [c EXCEPT !.decryptError =
                  << "Payment registry ID not configured. Please set VITE_PAYMENT_REGISTRY_ID in your .env file" >>],
              run |-> Return(r0, "Configuration")]
        ELSE LET c0 == [c EXCEPT !.isDecrypting = TRUE, !.listeners = @ + 1]
             IN  IF ~cfg.aggregator
                 THEN Throw(c0, r0,
                            Err("Error", << "Invalid blob ID or aggregator URL not configured" >>),
                            "ContentUnavailable")
                 ELSE Await(c0, r0, "fetch")
Start(c, r, cfg) ==
    LET r0 == [r EXCEPT !.n = @ + 1, !.trace = << >>, !.failure = "none",
                        !.evaluation = "none", !.locals = NoLocals]
    IN  IF ~cfg.sealClient \/ ~cfg.encryptedBlobId \/ ~cfg.account
        THEN [card |-> [c EXCEPT !.decryptError =
                  << "Seal client not available, no encrypted blob ID, or wallet not connected" >>],
              run |-> Return(r0, "Configuration")]
        ELSE IF ~cfg.registryId
        THEN [card |-> [c EXCEPT !.decryptError =
                  << "Payment registry ID not configured. Please set VITE_PAYMENT_REGISTRY_ID in your .env file" >>],
              run |-> Return(r0, "Configuration")]
        ELSE LET c0 == [c EXCEPT !.isDecrypting = TRUE, !.decryptError = NoMessage,
                                 !.listeners = @ + 1]
             IN  IF ~cfg.aggregator
                 THEN Throw(c0, r0,
                            Err("Error", << "Invalid blob ID or aggregator URL not configured" >>),
                            "ContentUnavailable")
                 ELSE Await(c0, r0, "fetch")

\* What an awaited call settles with.
Resolved(value) == [type |-> "resolve", value |-> value]
Rejected(error, cause) == [type |-> "reject", error |-> error, cause |-> cause]
Thrown(error, cause) == [type |-> "throw", error |-> error, cause |-> cause]

\* lines 274-279: fetch settled; value is response.ok
AfterFetch_retrying(c, r, o) ==
    IF o.type = "reject" \/ ~o.value
    THEN Await(c, r, "fetch")
    ELSE Await(c, r, "arrayBuffer")
AfterFetch(c, r, o) ==
    IF o.type = "reject" THEN Throw(c, r, o.error, o.cause)
    ELSE IF ~o.value
    THEN Throw(c, r, Err("Error", << "Failed to fetch encrypted blob: ", "statusText" >>),
               "ContentUnavailable")
    ELSE Await(c, r, "arrayBuffer")

\* lines 279-310: arrayBuffer settled; value is the byte length
AfterArrayBuffer_unchecked(c, r, o) ==
    IF o.type = "reject" THEN Throw(c, r, o.error, o.cause)
    ELSE Await(c, [r EXCEPT !.locals.encryptedBytes = o.value], "SessionKey.create")
AfterArrayBuffer(c, r, o) ==
    IF o.type = "reject" THEN Throw(c, r, o.error, o.cause)
    ELSE IF o.value = 0
    THEN Throw(c, r, Err("Error", << "Fetched encrypted blob is empty" >>),
               "ContentUnavailable")
    ELSE Await(c, [r EXCEPT !.locals.encryptedBytes = o.value], "SessionKey.create")

\* lines 298-324: SessionKey.create settled; the key belongs to this invocation
AfterSessionKeyCreate(c, r, o) ==
    IF o.type = "reject"
    THEN Throw(c, r, Wrapped("Failed to create SessionKey: ", o.error), o.cause)
    ELSE Await(c, [r EXCEPT !.locals.sessionKey = [id |-> r.n, signed |-> FALSE]],
               "signPersonalMessage")

\* lines 314-338: signPersonalMessage settled
AfterSignPersonalMessage(c, r, o) ==
    IF o.type = "reject"
    THEN Throw(c, r, Wrapped("Wallet signature failed: ", o.error), o.cause)
    ELSE Await(c, [r EXCEPT !.locals.sessionKey.signed = TRUE], "getCoins")

\* lines 338-381: getCoins settled; value is coins.data, the first is taken
AfterGetCoins(c, r, o) ==
    IF o.type = "reject" THEN Throw(c, r, o.error, o.cause)
    ELSE IF Len(o.value) = 0
    THEN Throw(c, r, Err("Error", << "No SUI coins found in wallet" >>),
               "RequestAssemblyFailed")
    ELSE Await(c, [r EXCEPT !.locals.paymentCoin = Coin(o.value[1], Account)],
               "tx.build")

\* The transaction handleDecrypt assembles (lines 351-372).
PaymentTx(r) == Tx(PAYMENT_REGISTRY_ID, CardContent, r.locals.paymentCoin, Account)

\* tx.build({ client, onlyTransactionKind: true }) (lines 378-381) produces
\* bytes; the transactions on chain stay as they are.
tx_build_executing(pending, tx) == Append(pending, tx)
tx_build(pending, tx) == pending

\* lines 377-471: tx.build settled (value is the byte length), the inputs
\* are validated, decrypt is called
AfterBuild(c, r, o) ==
    IF o.type = "reject"
    THEN Throw(c, r, Wrapped("Failed to build transaction: ", o.error), o.cause)
    ELSE IF o.value = 0
    THEN Throw(c, r, Wrapped("Failed to build transaction: ",
                             Err("Error", << "Transaction bytes are empty after building" >>)),
               "RequestAssemblyFailed")
    ELSE LET r1 == [r EXCEPT !.locals.txBytes = TRUE]
         IN  IF r1.locals.encryptedBytes = 0
             THEN Throw(c, r1, Err("Error", << "Encrypted data is empty or invalid" >>),
                        "RequestAssemblyFailed")
             ELSE IF r1.locals.sessionKey = NoSessionKey
             THEN Throw(c, r1, Err("Error", << "SessionKey is not initialized" >>),
                        "RequestAssemblyFailed")
             ELSE Await(c, r1, "sealClient.decrypt")

\* the .catch handler on the decrypt promise, lines 489-499
PromiseCatch(e) ==
    IF e.kind \in {"undefined", "null"}
    THEN Err("Error", << "Seal SDK rejected promise with undefined/null. This may indicate a network error, CORS issue, or SDK bug." >>)
    ELSE e

\* the catch block around the decrypt call, lines 513-578
DecryptCatch(e) ==
    Err("Error",
        CASE e.kind = "undefined" ->
                << "Seal decryption failed: Error was undefined. This may indicate a network issue or SDK error. Check browser console and network tab." >>
          [] e.kind = "null" -> << "Seal decryption failed: Error was null" >>
          [] e.kind = "Error" ->
                << "Seal decryption failed: " >> \o
                    (IF e.message # NoMessage THEN e.message ELSE << "Error" >>)
          [] e.kind = "object" /\ e.message # NoMessage ->
                << "Seal decryption failed: " >> \o e.message
          [] OTHER -> << "Seal decryption failed: " >> \o ErrorText(e))

\* lines 469-510: what the inner try block throws for a settled decrypt call,
\* a kind of "none" meaning that it completes
DecryptThrows_unchecked(o) ==
    CASE o.type = "throw" ->
            Err("Error", << "Synchronous error in decrypt call: " >> \o ErrorText(o.error))
      [] o.type = "reject" -> PromiseCatch(o.error)
      [] OTHER -> Err("none", NoMessage)
DecryptThrows(o) ==
    CASE o.type = "throw" ->
            Err("Error", << "Synchronous error in decrypt call: " >> \o ErrorText(o.error))
      [] o.type = "reject" -> PromiseCatch(o.error)
      [] o.value = "null" -> Err("Error", << "Decryption returned null or undefined" >>)
      [] o.value = "empty" -> Err("Error", << "Decryption returned empty result" >>)
      [] OTHER -> Err("none", NoMessage)

\* lines 469-633: decrypt settled; the image is published or the error shown
AfterDecrypt_publishing(c, r, o) ==
    [card |-> Finally([c EXCEPT !.decryptedImageUrl = "blob:url"]),
     run |-> Return([r EXCEPT !.trace = Append(@, "setDecryptedImageUrl")], "none")]
AfterDecrypt(c, r, o) ==
    LET thrown == DecryptThrows(o)
    IN  IF thrown.kind # "none"
        THEN Throw(c, r, DecryptCatch(thrown),
                   IF o.type = "resolve" THEN "DecryptionFailed" ELSE o.cause)
        ELSE [card |-> Finally([c EXCEPT !.decryptedImageUrl = "blob:url"]),
              run |-> Return([r EXCEPT !.trace = Append(@, "setDecryptedImageUrl")],
                             "none")]

\* ------------------------------------------------------------------------
\* NFTMintForm.tsx: uploadFileToWalrus and handleMint
\* ------------------------------------------------------------------------
\* the image files the user may select
Files == {"cat.png", "dog.png"}

\* VITE_SEAL_POLICY_ID, a hex string; "01" in the module documentation
SEAL_POLICY_ID == << "0", "1" >>
NoId == << >>

\* Bytes on their way to Walrus: those of a file, or the encryptedObject
\* that sealClient.encrypt made of them under an id.
Plain(file) == [file |-> file, encrypted |-> FALSE, id |-> NoId]
seal_encrypt(id, data) == [file |-> data.file, encrypted |-> TRUE, id |-> id]
NoData == [file |-> "none", encrypted |-> FALSE, id |-> NoId]

\* The blob id the publisher answers with is derived from the stored bytes.
BlobIdOf(data) ==
    << "blob" >> \o << IF data.encrypted THEN "e" ELSE "p" >> \o << data.file >>

\* reader.onload, lines 150-156: the preview data URL of the file
DataUrlOf(file) == << "data:", file >>
NoUrl == << >>

\* What the deployment configures: VITE_SEAL_PACKAGE_ID and
\* VITE_SEAL_POLICY_ID may be missing; the publisher is set, or nothing is
\* uploaded (lines 160-164).
FormConfigs ==
    { [sealPackageId |-> p, sealPolicyId |-> q] : p \in BOOLEAN, q \in BOOLEAN }

\* The file selections the model follows; each starts one FileReader and
\* one run of uploadFileToWalrus.
Selections == {1, 2}

\* A run of uploadFileToWalrus for a selected file (loaded: reader.onload has
\* run).  The run sees the sealClient of the render handleFileSelect was
\* called from.
Upload(file, sealClient) ==
    [file |-> file, sealClient |-> sealClient, loaded |-> FALSE,
     pc |-> "file.arrayBuffer", dataToUpload |-> NoData, blobId |-> NoUrl]

\* useState initial values, lines 66-91; sealClient is set by an effect.
\* uploads lists the selections in the order they were made, pending the
\* mint transactions handed to the wallet and not yet settled.
InitForm(cfg) ==
    [cfg |-> cfg, sealClient |-> FALSE, file |-> "none", uploads |-> << >>,
     imageUrl |-> NoUrl, blobId |-> NoUrl, isUploading |-> FALSE,
     isLoading |-> FALSE, pending |-> << >>, status |-> "idle"]

\* lines 140-173: handleFileSelect accepts an image file, starts the reader
\* and uploadFileToWalrus, which runs to its first await
StartUpload(f, file) ==
    [f EXCEPT !.file = file, !.isUploading = TRUE, !.blobId = NoUrl,
              !.status = "loading",
              !.uploads = Append(@, Upload(file, f.sealClient))]

\* reader.onload, lines 150-156: the preview data URL becomes the image URL
reader_onload(f, i) ==
    [f EXCEPT !.imageUrl = DataUrlOf(f.uploads[i].file), !.status = "idle",
              !.uploads[i].loaded = TRUE]

\* the catch and finally blocks of uploadFileToWalrus, lines 267-271
UploadFailed(f, i) ==
    [f EXCEPT !.status = "error", !.isUploading = FALSE,
              !.uploads[i].dataToUpload = NoData, !.uploads[i].pc = "failed"]

\* lines 173-200: the file is read; it is encrypted when the Seal client and
\* both Seal ids are there, and uploaded as it is otherwise
AfterFileRead(f, i, o) ==
    IF o.type = "reject" THEN UploadFailed(f, i)
    ELSE IF f.uploads[i].sealClient /\ f.cfg.sealPackageId /\ f.cfg.sealPolicyId
    THEN [f EXCEPT !.status = "loading",
                   !.uploads[i].dataToUpload = Plain(f.uploads[i].file),
                   !.uploads[i].pc = "sealClient.encrypt"]
    ELSE [f EXCEPT !.status = "loading",
                   !.uploads[i].dataToUpload = Plain(f.uploads[i].file),
                   !.uploads[i].pc = "PUT"]

\* lines 195-229: encrypt settled; when it threw the upload goes on with
\* the bytes it had
AfterEncrypt(f, i, o) ==
    IF o.type = "reject"
    THEN [f EXCEPT !.status = "loading", !.uploads[i].pc = "PUT"]
    ELSE [f EXCEPT !.status = "loading",
                   !.uploads[i].dataToUpload = seal_encrypt(SEAL_POLICY_ID, @),
                   !.uploads[i].pc = "PUT"]

\* lines 223-271: the PUT settled; value is resp.ok
AfterPut(f, i, o) ==
    IF o.type = "reject" \/ ~o.value THEN UploadFailed(f, i)
    ELSE LET blobIdentifier == BlobIdOf(f.uploads[i].dataToUpload)
         IN  [f EXCEPT !.blobId = blobIdentifier, !.imageUrl = blobIdentifier,
                       !.status = "success", !.isUploading = FALSE,
                       !.uploads[i].blobId = blobIdentifier,
                       !.uploads[i].dataToUpload = NoData,
                       !.uploads[i].pc = "done"]

\* The submit button, lines 642-651
SubmitButton(f) == ~f.isLoading /\ ~f.isUploading

\* handleMint, lines 338-427, as far as it runs when the form is submitted:
\* validateForm wants an image URL, setIsLoading(true), the transaction is
\* handed to signAndExecute, which returns at once, and finally
\* setIsLoading(false)
handleMint(f, name, description) ==
    LET f1 == [f EXCEPT !.isLoading = TRUE, !.status = "loading"]
        f2 == [f1 EXCEPT !.pending =
                  Append(@, [name |-> name, description |-> description,
                             url |-> f1.imageUrl])]
    IN  [f2 EXCEPT !.isLoading = FALSE]

\* s without its i-th element
Remove(s, i) == SubSeq(s, 1, i - 1) \o SubSeq(s, i + 1, Len(s))

\* handleMint's onSuccess, lines 394-409
AfterMint(f, i) ==
    [f EXCEPT !.imageUrl = NoUrl, !.status = "success", !.pending = Remove(@, i)]

\* handleMint's onError, lines 410-415
MintFailed(f, i) == [f EXCEPT !.status = "error", !.pending = Remove(@, i)]

\* ------------------------------------------------------------------------
\* module nft: TestnetNFT
\* ------------------------------------------------------------------------
\* what the user types into the form, and what owners change it to
Names == {"Cat"}
FormDescriptions == {"mine"}
Descriptions == {"mine", "for sale"}
NftIds == {1, 2}

TestnetNFT(id, name, description, url) ==
    [id |-> id, name |-> name, description |-> description, url |-> url]

\* An object with its owner; a burned object is deleted.
Owned(nft, owner) == [nft |-> nft, owner |-> owner, deleted |-> FALSE]

\* public fun mint_to_sender(name, description, url_str, ctx)
mint_to_sender(objects, name, description, url_str, sender) ==
    Append(objects, Owned(TestnetNFT(Len(objects) + 1, name, description, url_str), sender))

\* public fun transfer(nft, recipient, _)
transfer(object, recipient) == [object EXCEPT !.owner = recipient]

\* public fun update_description(nft, new_desc, _)
update_description_renaming(nft, new_desc) ==
    [nft EXCEPT !.description = new_desc, !.name = new_desc]
update_description(nft, new_desc) == [nft EXCEPT !.description = new_desc]

\* public fun burn(nft, _)
burn(object) == [object EXCEPT !.deleted = TRUE]

\* the state the model checker starts the ledger in
InitLedger ==
    /\ registries = init
    /\ txs = << >>
    /\ view = NoView

InitMintIdle ==
    /\ form = InitForm([sealPackageId |-> TRUE, sealPolicyId |-> TRUE])
    /\ walrus = {}
    /\ nfts = << >>

Init ==
    /\ InitLedger
    /\ config = ConfigComplete
    /\ card = InitCard
    /\ run = InitRun
    /\ InitMintIdle

\* public entry fun init_registry(ctx)
init_registry ==
    /\ Len(registries) < Cardinality(RegistryIds)
    /\ registries' = Append(registries, PaymentRegistry(Len(registries) + 1, table_new))
    /\ UNCHANGED << txs, view >>
    /\ UNCHANGED << dappVars, mintVars >>

\* A sender signs and submits a seal_approve transaction.
Submit(r, c, v, a) ==
    /\ Len(txs) < MaxTx
    /\ txs' = Append(txs, Tx(r, c, Coin(v, a), a))
    /\ UNCHANGED << registries, view >>
    /\ UNCHANGED << dappVars, mintVars >>

\* The chain executes one pending transaction, atomically.
Execute(i) ==
    /\ txs[i].exit = Pending
    /\ LET tx == txs[i]
           before == registries[tx.registry]
           result == seal_approve(tx.content_id, before, tx.fee_coin, tx.sender)
       IN  /\ registries' = [registries EXCEPT ![tx.registry] = Commit(before, result)]
           /\ txs' = [txs EXCEPT ![i].exit = result.exit,
                                 ![i].coin_after = fee_coin_after(tx.fee_coin, result.exit)]
    /\ UNCHANGED view
    /\ UNCHANGED << dappVars, mintVars >>

\* A client evaluates has_paid against a registry.
Query(r, c, a) ==
    /\ UNCHANGED txs
    /\ UNCHANGED << dappVars, mintVars >>
    /\ LET before == registries[r]
           result == has_paid(before, c, a)
       IN  /\ registries' = [registries EXCEPT ![r] = Commit(before, result)]
           /\ view' = [called |-> TRUE, exit |-> result.exit, ret |-> result.ret]

Next ==
    \/ init_registry
    \/ \E r \in DOMAIN registries, c \in ContentIds, v \in CoinValues, a \in Addresses :
          Submit(r, c, v, a)
    \/ \E i \in DOMAIN txs : Execute(i)
    \/ \E r \in DOMAIN registries, c \in ContentIds, a \in Addresses : Query(r, c, a)

Spec == Init /\ [][Next]_vars

\* The "Decrypt & View" button is rendered while no image is shown and is
\* enabled while isDecrypting is false and sealClient is set (lines 639-648).
DecryptButton_never_disabled(c, cfg) ==
    c.decryptedImageUrl = "" /\ cfg.sealClient
DecryptButton(c, cfg) ==
    c.decryptedImageUrl = "" /\ ~c.isDecrypting /\ cfg.sealClient

\* The user clicks "Decrypt & View": handleDecrypt is invoked, whatever an
\* earlier invocation is doing.
Click ==
    /\ card.mounted
    /\ run.n < MaxClicks
    /\ DecryptButton(card, config)
    /\ LET next == Start(card, run, config)
       IN  card' = next.card /\ run' = next.run
    /\ UNCHANGED << config, registries, txs, view, mintVars >>

\* The user clicks "Hide Image" (lines 692-703).
Hide ==
    /\ card.mounted
    /\ card.decryptedImageUrl # ""
    /\ card' = [card EXCEPT !.decryptedImageUrl = "", !.decryptError = NoMessage]
    /\ UNCHANGED << config, run, registries, txs, view, mintVars >>

\* The gallery stops rendering the card: the wallet is disconnected (lines
\* 108-119) or the user leaves the gallery.  NFTCard has no effect clean-up and
\* handleDecrypt checks nothing between its awaits, so an invocation in
\* flight goes on.
Unmount ==
    /\ card.mounted
    /\ card' = [card EXCEPT !.mounted = FALSE]
    /\ UNCHANGED << config, run, registries, txs, view, mintVars >>

\* handleDecrypt resumes with what the awaited call settled with
Resume(next) ==
    /\ card' = next.card
    /\ run' = next.run
    /\ UNCHANGED << config, registries, txs, view, mintVars >>

FetchDone ==
    /\ run.pc = "fetch"
    /\ \/ \E ok \in BOOLEAN : Resume(AfterFetch(card, run, Resolved(ok)))
       \/ \E e \in Rejections :
             Resume(AfterFetch(card, run, Rejected(e, "ContentUnavailable")))

ByteLengths == {0, 1}

ArrayBufferDone ==
    /\ run.pc = "arrayBuffer"
    /\ \/ \E len \in ByteLengths : Resume(AfterArrayBuffer(card, run, Resolved(len)))
       \/ \E e \in Rejections :
             Resume(AfterArrayBuffer(card, run, Rejected(e, "ContentUnavailable")))

SessionKeyDone ==
    /\ run.pc = "SessionKey.create"
    /\ \/ Resume(AfterSessionKeyCreate(card, run, Resolved("sessionKey")))
       \/ \E e \in Rejections :
             Resume(AfterSessionKeyCreate(card, run, Rejected(e, "SessionCreationFailed")))

SignDone ==
    /\ run.pc = "signPersonalMessage"
    /\ \/ Resume(AfterSignPersonalMessage(card, run, Resolved("signature")))
       \/ \E e \in Rejections :
             Resume(AfterSignPersonalMessage(card, run, Rejected(e, "AuthorizationDenied")))

\* what the wallet of the account may hold, in the order getCoins lists it
CoinLists ==
    {<< >>} \cup { << v >> : v \in CoinValues }
            \cup { << v, w >> : v \in CoinValues, w \in CoinValues }

GetCoinsDone ==
    /\ run.pc = "getCoins"
    /\ \/ \E coins \in CoinLists : Resume(AfterGetCoins(card, run, Resolved(coins)))
       \/ \E e \in Rejections :
             Resume(AfterGetCoins(card, run, Rejected(e, "RequestAssemblyFailed")))

BuildDone ==
    /\ run.pc = "tx.build"
    /\ \/ \E len \in ByteLengths : \E next \in {AfterBuild(card, run, Resolved(len))} :
             /\ card' = next.card
             /\ run' = next.run
             /\ txs' = tx_build(txs, PaymentTx(run))
             /\ UNCHANGED << config, registries, view, mintVars >>
       \/ \E e \in Rejections :
             Resume(AfterBuild(card, run, Rejected(e, "RequestAssemblyFailed")))

\* What the Seal SDK throws or rejects with for a cause: an error naming the
\* cause, or undefined (the case lines 495-497 provide for).
SdkErrors(cause) == { Err("Error", << cause >>), Err("undefined", NoMessage) }

\* The key servers evaluate the seal_approve call of txBytes against the
\* registry as it is now; the evaluation is a dry run and commits nothing.
Evaluation ==
    seal_approve(CardContent, registries[PAYMENT_REGISTRY_ID],
                 run.locals.paymentCoin, Account)

Settle(o, exit) ==
    \E next \in {AfterDecrypt(card, run, o)} :
        /\ card' = next.card
        /\ run' = [next.run EXCEPT !.evaluation = exit]
        /\ UNCHANGED << config, registries, txs, view, mintVars >>

\* sealClient.decrypt settles: it throws on a malformed encrypted object,
\* rejects when the key servers cannot be asked or refuse the credential,
\* rejects when the evaluation aborts, and otherwise resolves with the
\* plaintext (or nothing) or rejects because decryption itself failed.
DecryptDone ==
    /\ run.pc = "sealClient.decrypt"
    /\ \/ \E e \in SdkErrors("DecryptionFailed") :
             Settle(Thrown(e, "DecryptionFailed"), "none")
       \/ \E e \in SdkErrors("DecryptionDenied") :
             Settle(Rejected(e, "DecryptionDenied"), "none")
       \/ /\ Evaluation.exit \in Aborts
          /\ \E e \in SdkErrors("PaymentInsufficient") :
                Settle(Rejected(e, "PaymentInsufficient"), Evaluation.exit)
       \/ /\ Evaluation.exit \notin Aborts
          /\ \/ \E v \in {"bytes", "null", "empty"} :
                   Settle(Resolved(v), Evaluation.exit)
             \/ \E e \in SdkErrors("DecryptionFailed") :
                   Settle(Rejected(e, "DecryptionFailed"), Evaluation.exit)

\* Somebody pays for the card's content on chain with a sufficient coin.
Pay == Submit(PAYMENT_REGISTRY_ID, CardContent, required, Account)

InitDapp ==
    /\ InitLedger
    /\ config \in Configs
    /\ card = InitCard
    /\ run = InitRun
    /\ InitMintIdle

NextDapp ==
    \/ Click
    \/ FetchDone
    \/ ArrayBufferDone
    \/ SessionKeyDone
    \/ SignDone
    \/ GetCoinsDone
    \/ BuildDone
    \/ DecryptDone
    \/ Hide
    \/ Unmount
    \/ Pay
    \/ \E i \in DOMAIN txs : Execute(i)

SpecDapp == InitDapp /\ [][NextDapp]_vars

\* ------------------------------------------------------------------------
\* Vocabulary of the properties
\* ------------------------------------------------------------------------
\* what has_paid answers in the current state
Paid(r, c, a) == has_paid(registries[r], c, a).ret

\* the content ids that have an inner table, and the stored records
ContentTables(r) == DOMAIN registries[r].payments
Records(r) ==
    { p \in ContentIds \X Addresses :
        /\ p[1] \in DOMAIN registries[r].payments
        /\ p[2] \in DOMAIN registries[r].payments[p[1]] }

\* transaction i is a seal_approve on registry r for content c sent by a
Targets(i, r, c, a) ==
    /\ txs[i].registry = r
    /\ txs[i].content_id = c
    /\ txs[i].sender = a

\* this step executes transaction i
ExecutedIn(i) == txs[i].exit = Pending /\ txs'[i].exit # Pending

Funded(i) == coin_value(txs[i].fee_coin) >= 5000000

\* C1: has_paid(c, u) is false as long as no seal_approve for c sent by u
\* has committed on the record-payment path, and true in every state after
\* one has: no step unsets a recorded payment.
C1_PaidOnceAcceptedAndForever ==
    \A r \in DOMAIN registries, c \in ContentIds, a \in Addresses :
        Paid(r, c, a) <=>
            \E i \in DOMAIN txs :
                Targets(i, r, c, a) /\ txs[i].exit = "PaymentAccepted"

\* Two payers of one content are both recorded after the second payment.
C1_Witness ==
    \E r \in DOMAIN registries, c \in ContentIds :
        /\ \A a \in Addresses : Paid(r, c, a)
        /\ \A a \in Addresses : \E i \in DOMAIN txs :
               Targets(i, r, c, a) /\ txs[i].exit = "PaymentAccepted"

\* C2: of the funded seal_approve transactions of one sender for one content
\* of one registry, whatever the order of execution, exactly one inserts the
\* record and every other one takes the already-paid path.
C2_ExactlyOnce ==
    \A r \in DOMAIN registries, c \in ContentIds, a \in Addresses :
        LET mine == { i \in DOMAIN txs : Targets(i, r, c, a) }
            accepted == { i \in mine : txs[i].exit = "PaymentAccepted" }
            funded == { i \in mine : txs[i].exit # Pending /\ Funded(i) }
        IN  /\ Cardinality(accepted) <= 1
            /\ (accepted # {}) <=> (<< c, a >> \in Records(r))
            /\ funded # {} =>
                  /\ Cardinality(accepted) = 1
                  /\ \A i \in funded \ accepted : txs[i].exit = "AlreadyPaid"

\* Two funded transactions of one pair were pending together: the one
\* submitted last was executed first and inserted, the other one then took
\* the already-paid path.
C2_Witness ==
    \E i \in DOMAIN txs, j \in DOMAIN txs :
        /\ i < j
        /\ Targets(j, txs[i].registry, txs[i].content_id, txs[i].sender)
        /\ Funded(i) /\ Funded(j)
        /\ txs[j].exit = "PaymentAccepted"
        /\ txs[i].exit = "AlreadyPaid"

\* C3: a seal_approve for an unpaid pair with a coin below the fee aborts
\* with ENotPaid and commits nothing: every registry is as before, the pair
\* stays unpaid and a new content id gets no inner table.
C3_InsufficientLeavesLedger ==
    [][ \A i \in DOMAIN txs :
           ( /\ ExecutedIn(i)
             /\ ~Paid(txs[i].registry, txs[i].content_id, txs[i].sender)
             /\ coin_value(txs[i].fee_coin) < 5000000 )
           => /\ txs'[i].exit = ENotPaid
              /\ registries' = registries
              /\ ~Paid(txs[i].registry, txs[i].content_id, txs[i].sender)'
              /\ ContentTables(txs[i].registry)' = ContentTables(txs[i].registry)
      ]_vars

\* An underfunded call for a content id without inner table has aborted and
\* the registry still has no table for it.
C3_Witness ==
    \E i \in DOMAIN txs :
        /\ txs[i].exit = ENotPaid
        /\ txs[i].content_id \notin ContentTables(txs[i].registry)

\* C4: a seal_approve for a pair that is already paid returns on the
\* already-paid path, and the content tables and the records of every
\* registry are the same after the call as before.
C4_PaidCallIsIdempotent ==
    [][ \A i \in DOMAIN txs :
           ( /\ ExecutedIn(i)
             /\ Paid(txs[i].registry, txs[i].content_id, txs[i].sender) )
           => /\ txs'[i].exit = "AlreadyPaid"
              /\ \A r \in DOMAIN registries :
                    /\ ContentTables(r)' = ContentTables(r)
                    /\ Records(r)' = Records(r)
              /\ registries' = registries
      ]_vars

\* A funded call on a paid pair has returned on the already-paid path.
C4_Witness ==
    \E i \in DOMAIN txs, j \in DOMAIN txs :
        /\ i # j
        /\ Targets(j, txs[i].registry, txs[i].content_id, txs[i].sender)
        /\ txs[i].exit = "PaymentAccepted"
        /\ txs[j].exit = "AlreadyPaid"
        /\ Funded(j)
        /\ Cardinality(Records(txs[i].registry)) = 1

\* coin values the fee comparison is probed with
FeeProbes == CoinValues \cup { 1000, 5000001 }

\* C5: for a paid pair seal_approve takes the already-paid path with every
\* coin value, a coin of value 0 included.
C5_PaidPairNeedsNoFunds ==
    \A r \in DOMAIN registries, c \in ContentIds, a \in Addresses :
        Paid(r, c, a) =>
            \A v \in FeeProbes :
                seal_approve(c, registries[r], [value |-> v], a).exit = "AlreadyPaid"

\* A call with a coin of value 0 on a paid pair was let through.
C5_Witness ==
    \E i \in DOMAIN txs :
        /\ coin_value(txs[i].fee_coin) = 0
        /\ txs[i].exit = "AlreadyPaid"
        /\ Paid(txs[i].registry, txs[i].content_id, txs[i].sender)

\* C6: for an unpaid pair seal_approve records the payment exactly when the
\* coin is worth at least 5,000,000: 5,000,000 is accepted and has_paid is
\* true afterwards; 4,999,999 and 1,000 abort with ENotPaid and has_paid
\* stays false.
C6_FeeThreshold ==
    \A r \in DOMAIN registries, c \in ContentIds, a \in Addresses :
        ~Paid(r, c, a) =>
            \A v \in FeeProbes :
                LET result == seal_approve(c, registries[r], [value |-> v], a)
                    after == Commit(registries[r], result)
                IN  IF v >= 5000000
                    THEN /\ result.exit = "PaymentAccepted"
                         /\ has_paid(after, c, a).ret
                    ELSE /\ result.exit = ENotPaid
                         /\ ~has_paid(after, c, a).ret

\* A coin of exactly 5,000,000 was accepted and one of 4,999,999 refused.
C6_Witness ==
    \E i \in DOMAIN txs, j \in DOMAIN txs :
        /\ coin_value(txs[i].fee_coin) = 5000000
        /\ txs[i].exit = "PaymentAccepted"
        /\ Paid(txs[i].registry, txs[i].content_id, txs[i].sender)
        /\ coin_value(txs[j].fee_coin) = 4999999
        /\ txs[j].exit = ENotPaid
        /\ ~Paid(txs[j].registry, txs[j].content_id, txs[j].sender)

\* C7: a seal_approve for content A changes has_paid(B, u) for no other
\* content B; has_paid(B, u) turns true only in a step that executes a
\* seal_approve for B sent by u.
C7_CrossContentIndependence ==
    [][ /\ \A i \in DOMAIN txs : ExecutedIn(i) =>
              \A r \in DOMAIN registries, c \in ContentIds \ {txs[i].content_id},
                 a \in Addresses :
                     Paid(r, c, a)' = Paid(r, c, a)
        /\ \A r \in DOMAIN registries, c \in ContentIds, a \in Addresses :
              (~Paid(r, c, a) /\ Paid(r, c, a)') =>
                  \E i \in DOMAIN txs : Targets(i, r, c, a) /\ ExecutedIn(i)
      ]_vars

\* A sender has paid for one content, the other content has its table, and
\* the sender is unpaid there.
C7_Witness ==
    \E r \in DOMAIN registries, a \in Addresses, c \in ContentIds, d \in ContentIds :
        /\ c # d
        /\ Paid(r, c, a)
        /\ d \in ContentTables(r)
        /\ ~Paid(r, d, a)

\* C8: a seal_approve sent by u for content c of a registry adds at most the
\* record (c, u) of that registry and removes none; has_paid of any other
\* user is left as it was.
C8_CrossRequesterIndependence ==
    [][ \A i \in DOMAIN txs : ExecutedIn(i) =>
           /\ \A r \in DOMAIN registries :
                 /\ Records(r) \subseteq Records(r)'
                 /\ Records(r)' \ Records(r) \subseteq
                       IF r = txs[i].registry
                       THEN { << txs[i].content_id, txs[i].sender >> }
                       ELSE {}
           /\ \A r \in DOMAIN registries, c \in ContentIds,
                 a \in Addresses \ {txs[i].sender} :
                     Paid(r, c, a)' = Paid(r, c, a)
      ]_vars

\* One requester has paid for a content and the other one, who has not, is
\* unpaid for it.
C8_Witness ==
    \E r \in DOMAIN registries, c \in ContentIds, a \in Addresses, b \in Addresses :
        /\ a # b
        /\ Paid(r, c, a)
        /\ ~Paid(r, c, b)
        /\ \E i \in DOMAIN txs : Targets(i, r, c, a) /\ txs[i].exit = "PaymentAccepted"

\* C9: has_paid returns a boolean without aborting for every content id and
\* address, and leaves every registry unchanged; it creates no inner table.
C9_HasPaidIsTotalAndPure ==
    [][ \A r \in DOMAIN registries, c \in ContentIds, a \in Addresses :
           Query(r, c, a) =>
               /\ view'.exit = "return"
               /\ view'.ret \in BOOLEAN
               /\ registries' = registries
               /\ ContentTables(r)' = ContentTables(r)
      ]_vars

\* has_paid was called while no registry had any inner table.
C9_Witness ==
    /\ view.called
    /\ view.exit = "return"
    /\ view.ret = FALSE
    /\ \A r \in DOMAIN registries : ContentTables(r) = {}

\* C10: a seal_approve takes the already-paid path exactly when has_paid
\* answers true for its registry, content id and sender in the state it
\* runs in.
C10_GateAgreesWithCheck ==
    [][ \A i \in DOMAIN txs : ExecutedIn(i) =>
           ( (txs'[i].exit = "AlreadyPaid")
             <=> Paid(txs[i].registry, txs[i].content_id, txs[i].sender) )
      ]_vars

\* One payer was recorded for a content, and another sender's call for the
\* same content did not take the already-paid path.
C10_Witness ==
    \E i \in DOMAIN txs, j \in DOMAIN txs :
        /\ txs[i].registry = txs[j].registry
        /\ txs[i].content_id = txs[j].content_id
        /\ txs[i].sender # txs[j].sender
        /\ txs[i].exit = "PaymentAccepted"
        /\ txs[j].exit = ENotPaid
        /\ ~Paid(txs[j].registry, txs[j].content_id, txs[j].sender)

\* C11: exactly one PaymentRegistry exists in every state after deployment,
\* so every has_paid and seal_approve reads the same ledger; no call of an
\* entry function creates a second registry.
C11_SingleRegistry ==
    /\ Len(registries) = 1
    /\ \A r \in DOMAIN registries, q \in DOMAIN registries,
          c \in ContentIds, a \in Addresses : Paid(r, c, a) = Paid(q, c, a)

\* C12: a seal_approve that records a new payment takes the fee from the
\* presented coin (its value drops or it leaves the sender); on every other
\* exit the coin's value and owner are unchanged.
C12_FeeTakenOnlyOnNewPayment ==
    [][ \A i \in DOMAIN txs : ExecutedIn(i) =>
           IF txs'[i].exit = "PaymentAccepted"
           THEN \/ txs'[i].coin_after.value < txs[i].fee_coin.value
                \/ txs'[i].coin_after.owner # txs[i].sender
           ELSE txs'[i].coin_after = txs[i].fee_coin
      ]_vars

\* C13: in every committed state every content id present in payments has
\* an inner table holding at least one record: the table of a new content
\* id and its first record are committed together or not at all.
C13_LazyNestingAtomic ==
    \A r \in DOMAIN registries :
        \A c \in DOMAIN registries[r].payments :
            DOMAIN registries[r].payments[c] # {}

\* The first payment for a content id has created its table with the
\* payer's record, and an underfunded call for another new content id of the
\* same registry has left no table behind.
C13_Witness ==
    \E i \in DOMAIN txs, j \in DOMAIN txs :
        /\ txs[i].registry = txs[j].registry
        /\ txs[i].content_id # txs[j].content_id
        /\ txs[i].exit = "PaymentAccepted"
        /\ DOMAIN registries[txs[i].registry].payments[txs[i].content_id] = {txs[i].sender}
        /\ txs[j].exit = ENotPaid
        /\ txs[j].content_id \notin ContentTables(txs[j].registry)

\* ------------------------------------------------------------------------
\* handleDecrypt: property vocabulary
\* ------------------------------------------------------------------------
\* the external calls of handleDecrypt in program order; stage 1 is the
\* first two, stage 4 (coin selection and transaction build) the fifth and
\* sixth
CallOrder ==
    << "fetch", "arrayBuffer", "SessionKey.create", "signPersonalMessage",
       "getCoins", "tx.build", "sealClient.decrypt", "setDecryptedImageUrl" >>

IsPrefix(s, t) == Len(s) <= Len(t) /\ \A i \in DOMAIN s : s[i] = t[i]

Calls(r) == { r.trace[i] : i \in DOMAIN r.trace }

Ended(r) == r.pc = "idle" /\ r.n > 0
Failed(r) == Ended(r) /\ r.failure # "none"

\* C14: the calls an invocation of handleDecrypt makes are an initial part
\* of the fixed sequence fetch, arrayBuffer, SessionKey.create,
\* signPersonalMessage, getCoins, tx.build, sealClient.decrypt,
\* setDecryptedImageUrl: each step adds at most the next call of that
\* sequence, so no stage is entered twice or out of order; a call is added
\* only by an invocation that has not failed, and a step that fails adds
\* none and ends the invocation, after which nothing is added.
C14_StagesInOrder ==
    [][ /\ IsPrefix(run'.trace, CallOrder)
        /\ (run'.n = run.n /\ run'.trace # run.trace) =>
               /\ run.pc # "idle" /\ run.failure = "none" /\ run'.failure = "none"
               /\ run'.trace = Append(run.trace, CallOrder[Len(run.trace) + 1])
        /\ run'.failure # "none" => run'.pc = "idle"
        /\ (run'.n = run.n /\ run.failure # "none") => run' = run ]_vars

C14_Witness ==
    /\ run.n = 2
    /\ run.failure = "AuthorizationDenied"
    /\ run.trace = << "fetch", "arrayBuffer", "SessionKey.create", "signPersonalMessage" >>

\* the ways the blob fetch fails: fetch rejects, the response is not ok
FetchFailures ==
    { Rejected(e, "ContentUnavailable") : e \in Rejections } \cup { Resolved(FALSE) }
\* arrayBuffer rejects, or the body has zero bytes
ArrayBufferFailures ==
    { Rejected(e, "ContentUnavailable") : e \in Rejections }

\* an invocation that ended at the fetch stage with an error shown, having
\* created no SessionKey, asked for no signature, built no transaction and
\* not called decrypt
EndsAtFetch(before, next) ==
    /\ next.run.pc = "idle"
    /\ next.run.failure = "ContentUnavailable"
    /\ next.run.trace = before.trace
    /\ Calls(next.run) \subseteq {"fetch", "arrayBuffer"}
    /\ next.run.locals = NoLocals
    /\ next.card.decryptError # NoMessage
    /\ next.card.decryptedImageUrl = ""
    /\ ~next.card.isDecrypting

\* C15: whenever handleDecrypt waits for the blob, every failing outcome
\* (fetch rejects, the response is not ok, arrayBuffer rejects, the body has
\* zero bytes) ends the invocation with an error shown and with no
\* SessionKey created, no signature requested, no transaction built and
\* decrypt not called; and every invocation that ended that way has made no
\* call but fetch and arrayBuffer.
C15_FetchFailureEndsRun ==
    /\ run.pc = "fetch" =>
          \A o \in FetchFailures : EndsAtFetch(run, AfterFetch(card, run, o))
    /\ run.pc = "arrayBuffer" =>
          /\ \A o \in ArrayBufferFailures :
                EndsAtFetch(run, AfterArrayBuffer(card, run, o))
          /\ EndsAtFetch(run, AfterArrayBuffer(card, run, Resolved(0)))
    /\ run.failure = "ContentUnavailable" =>
          /\ Failed(run)
          /\ Calls(run) \subseteq {"fetch", "arrayBuffer"}
          /\ run.locals = NoLocals
          /\ card.decryptError # NoMessage
          /\ card.decryptedImageUrl = ""

C15_Witness ==
    /\ run.failure = "ContentUnavailable"
    /\ run.trace = << "fetch", "arrayBuffer" >>
    /\ card.decryptError = << "Fetched encrypted blob is empty" >>

\* the positions of handleDecrypt before the decrypt call
BeforeGate ==
    { "idle", "fetch", "arrayBuffer", "SessionKey.create", "signPersonalMessage",
      "getCoins", "tx.build" }

\* C16: no step handleDecrypt takes before it calls sealClient.decrypt, and
\* so no failure of the fetch, of the SessionKey creation, of the signing,
\* of the coin lookup or of the transaction build, submits a seal_approve
\* transaction or has one evaluated, and every PaymentRegistry is the same
\* after the step as before.
C16_NothingSubmittedBeforeGate ==
    [][ (run.pc \in BeforeGate /\ run' # run) =>
           /\ registries' = registries
           /\ txs' = txs
           /\ run'.evaluation = "none" ]_vars

C16_Witness ==
    /\ run.failure = "RequestAssemblyFailed"
    /\ run.trace[Len(run.trace)] = "tx.build"
    /\ card.decryptError = << "Failed to build transaction: ", "request failed" >>
    /\ run.evaluation = "none"
    /\ Paid(PAYMENT_REGISTRY_ID, CardContent, Account)

FailureClass(cause) ==
    CASE cause = "PaymentInsufficient" -> "payment required"
      [] cause = "DecryptionFailed" -> "unrecoverable"
      [] OTHER -> "transient"

\* the ways a decrypt call fails by rejecting
DecryptRejections ==
    UNION { { Rejected(e, cause) : e \in SdkErrors(cause) } :
            cause \in {"PaymentInsufficient", "DecryptionDenied", "DecryptionFailed"} }

\* what handleDecrypt reports of a failure: the text of decryptError
Reported(c) == c.decryptError

\* C18: when an invocation has failed, what it reports is not what a failure
\* of another class (payment required, transient, unrecoverable) reports.
C18_FailureClassesToldApart ==
    Failed(run) =>
        \A o \in DecryptRejections :
            FailureClass(o.cause) # FailureClass(run.failure) =>
                Reported(AfterDecrypt(card, run, o).card) # Reported(card)

\* what a decrypt call may settle with
DecryptOutcomes ==
    DecryptRejections
        \cup { Thrown(e, "DecryptionFailed") : e \in SdkErrors("DecryptionFailed") }
        \cup { Resolved(v) : v \in {"bytes", "null", "empty"} }

\* C19: a step sets decryptedImageUrl to a non-empty value only as the last
\* call of an invocation that made every call before it and did not fail,
\* and of all the outcomes of the decrypt call only a resolution with
\* non-empty bytes has the image published; a step in which the invocation
\* fails leaves decryptedImageUrl as it was and decryptError non-empty.
C19_ImageOnlyOnSuccess ==
    [][ /\ (card'.decryptedImageUrl # card.decryptedImageUrl
              /\ card'.decryptedImageUrl # "") =>
               /\ run.pc = "sealClient.decrypt"
               /\ run'.trace = CallOrder
               /\ run'.failure = "none"
               /\ card'.decryptError = NoMessage
        /\ (run' # run /\ run'.failure # "none") =>
               /\ card'.decryptedImageUrl = card.decryptedImageUrl
               /\ card'.decryptError # NoMessage
        /\ run'.pc = "sealClient.decrypt" =>
               \A o \in DecryptOutcomes :
                   LET next == AfterDecrypt(card', run', o)
                   IN  IF o = Resolved("bytes")
                       THEN next.card.decryptedImageUrl # "" /\ next.run.failure = "none"
                       ELSE /\ next.card.decryptedImageUrl = card'.decryptedImageUrl
                            /\ next.card.decryptError # NoMessage
                            /\ next.run.failure # "none" ]_vars

C19_Witness ==
    /\ card.decryptedImageUrl # ""
    /\ run.n = 2
    /\ run.trace = CallOrder
    /\ run.failure = "none"

\* the positions at which handleDecrypt holds a SessionKey
HoldsSessionKey == { "signPersonalMessage", "getCoins", "tx.build", "sealClient.decrypt" }

\* C20: no SessionKey outlives the invocation that created it: when
\* handleDecrypt is not running none is held, whatever way it ended; the key
\* an invocation holds is the one that invocation created, and the one it
\* hands to decrypt carries the signature obtained in that invocation.
C20_SessionKeyPerInvocation ==
    /\ run.pc = "idle" => run.locals.sessionKey = NoSessionKey
    /\ run.pc \in HoldsSessionKey <=> run.locals.sessionKey # NoSessionKey
    /\ run.locals.sessionKey # NoSessionKey => run.locals.sessionKey.id = run.n
    /\ run.pc = "sealClient.decrypt" => run.locals.sessionKey.signed

C20_Witness ==
    /\ run.n = 2
    /\ run.pc = "sealClient.decrypt"
    /\ run.locals.sessionKey = [id |-> 2, signed |-> TRUE]

\* ------------------------------------------------------------------------
\* handleDecrypt: progress
\* ------------------------------------------------------------------------
\* handleDecrypt sets no timer and passes no AbortSignal: an await resumes
\* only when the awaited call settles.  The calls the blob body, the
\* SessionKey, the coin list and the transaction bytes come from are taken
\* to settle; the content fetch, the wallet's signature request and the
\* decrypt call are free never to.
SpecDappLive ==
    /\ InitDapp
    /\ [][NextDapp]_vars
    /\ WF_vars(ArrayBufferDone)
    /\ WF_vars(SessionKeyDone)
    /\ WF_vars(GetCoinsDone)
    /\ WF_vars(BuildDone)

\* C21: every invocation of handleDecrypt that has started ends, with the
\* image published or an error reported, and isDecrypting returns to false,
\* whether or not the content fetch, the signature request and the decrypt
\* call ever settle.
C21_StartedInvocationEnds ==
    card.isDecrypting ~> (~card.isDecrypting /\ run.pc = "idle")

\* ------------------------------------------------------------------------
\* handleDecrypt and the registry
\* ------------------------------------------------------------------------
CardPaid == Paid(PAYMENT_REGISTRY_ID, CardContent, Account)

\* C22: while the card shows the decrypted image, the payment of the
\* account for the card's content is recorded in the registry: an
\* invocation for an unpaid pair that ends with the image published has had
\* its access decision committed.
C22_PlaintextOnlyWithRecordedPayment ==
    card.decryptedImageUrl # "" => CardPaid

\* C23: when the payment of the account for the card's content is recorded
\* and handleDecrypt waits for the coin list, whatever the wallet holds (no
\* coin at all, coins below the fee, coins of the fee) the invocation goes
\* on to build the transaction, and the evaluation made for it exits with
\* AlreadyPaid.
C23_PaidRetryNeedsNoCoin ==
    (CardPaid /\ run.pc = "getCoins") =>
        \A coins \in CoinLists :
            LET next == AfterGetCoins(card, run, Resolved(coins))
            IN  /\ next.run.failure = "none"
                /\ next.run.pc = "tx.build"
                /\ seal_approve(CardContent, registries[PAYMENT_REGISTRY_ID],
                                next.run.locals.paymentCoin, Account).exit = "AlreadyPaid"

\* C24: once the card is no longer rendered, the invocation of
\* handleDecrypt is over: it is at no await and holds no SessionKey, it makes
\* no further call and calls neither setDecryptedImageUrl nor
\* setDecryptError; and a payment that is recorded stays recorded.
C24_AbortStopsInvocation ==
    [][ /\ ~card'.mounted =>
               /\ run'.pc = "idle"
               /\ run'.locals.sessionKey = NoSessionKey
        /\ ~card.mounted =>
               /\ run'.trace = run.trace
               /\ card'.decryptedImageUrl = card.decryptedImageUrl
               /\ card'.decryptError = card.decryptError
        /\ CardPaid => CardPaid' ]_vars

\* ------------------------------------------------------------------------
\* Creating content: upload and mint
\* ------------------------------------------------------------------------
\* the effect of lines 94-124 sets the Seal client, some time after mount
SealClientReady ==
    /\ ~form.sealClient
    /\ form' = [form EXCEPT !.sealClient = TRUE]
    /\ UNCHANGED << walrus, nfts, ledgerVars, dappVars >>

\* The user picks an image file (handleFileSelect); the file input is
\* disabled only while isLoading (line 569).
SelectFile ==
    /\ ~form.isLoading
    /\ Len(form.uploads) < Cardinality(Selections)
    /\ \E file \in Files : form' = StartUpload(form, file)
    /\ UNCHANGED << walrus, nfts, ledgerVars, dappVars >>

\* A FileReader has read its file.
ReaderDone ==
    /\ \E i \in DOMAIN form.uploads :
          /\ ~form.uploads[i].loaded
          /\ form' = reader_onload(form, i)
    /\ UNCHANGED << walrus, nfts, ledgerVars, dappVars >>

FileReadDone ==
    /\ \E i \in DOMAIN form.uploads :
          /\ form.uploads[i].pc = "file.arrayBuffer"
          /\ \/ form' = AfterFileRead(form, i, Resolved("data"))
             \/ \E e \in Rejections :
                   form' = AfterFileRead(form, i, Rejected(e, "file"))
    /\ UNCHANGED << walrus, nfts, ledgerVars, dappVars >>

EncryptDone ==
    /\ \E i \in DOMAIN form.uploads :
          /\ form.uploads[i].pc = "sealClient.encrypt"
          /\ \/ form' = AfterEncrypt(form, i, Resolved("encryptedObject"))
             \/ \E e \in Rejections :
                   form' = AfterEncrypt(form, i, Rejected(e, "encrypt"))
    /\ UNCHANGED << walrus, nfts, ledgerVars, dappVars >>

\* The publisher answers a PUT; when it answers ok it has stored the body.
PutDone ==
    /\ \E i \in DOMAIN form.uploads :
          /\ form.uploads[i].pc = "PUT"
          /\ \/ /\ form' = AfterPut(form, i, Resolved(TRUE))
                /\ walrus' = walrus \cup {form.uploads[i].dataToUpload}
             \/ /\ form' = AfterPut(form, i, Resolved(FALSE))
                /\ UNCHANGED walrus
             \/ /\ \E e \in Rejections :
                      form' = AfterPut(form, i, Rejected(e, "publisher"))
                /\ UNCHANGED walrus
    /\ UNCHANGED << nfts, ledgerVars, dappVars >>

\* The user submits the form: handleMint runs and returns.
HandleMint ==
    /\ SubmitButton(form)
    /\ form.imageUrl # NoUrl
    /\ Len(nfts) + Len(form.pending) < Cardinality(NftIds)
    /\ \E name \in Names, description \in FormDescriptions :
          form' = handleMint(form, name, description)
    /\ UNCHANGED << walrus, nfts, ledgerVars, dappVars >>

\* The wallet settles a transaction it was handed: mint_to_sender is
\* executed and onSuccess runs, or the user rejects it and onError runs.
MintDone ==
    /\ \E i \in DOMAIN form.pending :
          \/ /\ nfts' = mint_to_sender(nfts, form.pending[i].name,
                                       form.pending[i].description,
                                       form.pending[i].url, Account)
             /\ form' = AfterMint(form, i)
          \/ /\ form' = MintFailed(form, i)
             /\ UNCHANGED nfts
    /\ UNCHANGED << walrus, ledgerVars, dappVars >>

\* the urls NFTs are minted with: blob ids and preview data URLs
Urls ==
    { BlobIdOf(data) : data \in { Plain(file) : file \in Files }
                               \cup { seal_encrypt(SEAL_POLICY_ID, Plain(file)) : file \in Files } }
    \cup { DataUrlOf(file) : file \in Files }

\* Somebody calls the entry function mint_to_sender.
MintToSender(sender) ==
    /\ Len(nfts) < Cardinality(NftIds)
    /\ \E name \in Names, description \in FormDescriptions, url_str \in Urls :
          nfts' = mint_to_sender(nfts, name, description, url_str, sender)
    /\ UNCHANGED << form, walrus, ledgerVars, dappVars >>

\* The owner of an NFT calls transfer, update_description or burn.
Transfer(i) ==
    /\ ~nfts[i].deleted
    /\ \E recipient \in Addresses : nfts' = [nfts EXCEPT ![i] = transfer(@, recipient)]
    /\ UNCHANGED << form, walrus, ledgerVars, dappVars >>

UpdateDescription(i) ==
    /\ ~nfts[i].deleted
    /\ \E new_desc \in Descriptions :
          nfts' = [nfts EXCEPT ![i].nft = update_description(@, new_desc)]
    /\ UNCHANGED << form, walrus, ledgerVars, dappVars >>

Burn(i) ==
    /\ ~nfts[i].deleted
    /\ nfts' = [nfts EXCEPT ![i] = burn(@)]
    /\ UNCHANGED << form, walrus, ledgerVars, dappVars >>

InitMint ==
    /\ InitLedger
    /\ config = ConfigComplete
    /\ card = InitCard
    /\ run = InitRun
    /\ form \in { InitForm(cfg) : cfg \in FormConfigs }
    /\ walrus = {}
    /\ nfts = << >>

NextMint ==
    \/ SealClientReady
    \/ SelectFile
    \/ ReaderDone
    \/ FileReadDone
    \/ EncryptDone
    \/ PutDone
    \/ HandleMint
    \/ MintDone

SpecMint == InitMint /\ [][NextMint]_vars

\* Module nft on its own: anybody calls mint_to_sender with any url, and
\* owners transfer, update and burn what they own.
NextNft ==
    \/ \E sender \in Addresses : MintToSender(sender)
    \/ \E i \in DOMAIN nfts : Transfer(i)
    \/ \E i \in DOMAIN nfts : UpdateDescription(i)
    \/ \E i \in DOMAIN nfts : Burn(i)

SpecNft == Init /\ [][NextNft]_vars

\* C25: the body of every PUT to the Walrus publisher, and so every blob
\* the publisher has stored for the form, is an encryptedObject made by
\* sealClient.encrypt, never the bytes of the selected file.
C25_UploadsAreEncrypted ==
    /\ \A i \in DOMAIN form.uploads :
          form.uploads[i].pc = "PUT" => form.uploads[i].dataToUpload.encrypted
    /\ \A data \in walrus : data.encrypted

\* C26: a step leaves the name and the url of every TestnetNFT that exists
\* what they are, so they stay what mint_to_sender was given; a step that
\* changes the description changes nothing else of the NFT, not even its
\* owner, and a step that changes the owner changes nothing of the NFT.
C26_NameAndUrlImmutable ==
    [][ \A i \in DOMAIN nfts :
            /\ nfts'[i].nft.id = nfts[i].nft.id
            /\ nfts'[i].nft.name = nfts[i].nft.name
            /\ nfts'[i].nft.url = nfts[i].nft.url
            /\ nfts'[i].nft.description # nfts[i].nft.description =>
                   /\ nfts'[i].owner = nfts[i].owner
                   /\ nfts'[i].deleted = nfts[i].deleted
            /\ nfts'[i].owner # nfts[i].owner => nfts'[i].nft = nfts[i].nft ]_vars

C26_Witness ==
    \E i \in DOMAIN nfts :
        /\ nfts[i].nft = TestnetNFT(i, "Cat", "for sale", << "blob", "e", "cat.png" >>)
        /\ nfts[i].owner = "0xB"
        /\ ~nfts[i].deleted

\* ------------------------------------------------------------------------
\* Content identity at encryption and at the gate
\* ------------------------------------------------------------------------
\* the value of a hexadecimal digit
HexValue(ch) ==
    CASE ch = "0" -> 0 [] ch = "1" -> 1 [] ch = "2" -> 2 [] ch = "3" -> 3
      [] ch = "4" -> 4 [] ch = "5" -> 5 [] ch = "6" -> 6 [] ch = "7" -> 7
      [] ch = "8" -> 8 [] ch = "9" -> 9 [] ch = "a" -> 10 [] ch = "b" -> 11
      [] ch = "c" -> 12 [] ch = "d" -> 13 [] ch = "e" -> 14 [] ch = "f" -> 15

\* the bytes a hex string stands for: the identity sealClient.encrypt binds
\* the ciphertext to (id: SEAL_POLICY_ID, line 198)
fromHex(hex) ==
    [ i \in 1..(Len(hex) \div 2) |->
        16 * HexValue(hex[2 * i - 1]) + HexValue(hex[2 * i]) ]

\* the UTF-8 bytes of the text parts blob ids are made of
Utf8(part) ==
    CASE part = "blob" -> << 98, 108, 111, 98 >>
      [] part = "e" -> << 101 >>
      [] part = "p" -> << 112 >>
      [] part = "cat.png" -> << 99, 97, 116, 46, 112, 110, 103 >>
      [] part = "dog.png" -> << 100, 111, 103, 46, 112, 110, 103 >>
      [] part = "data:" -> << 100, 97, 116, 97, 58 >>

RECURSIVE TextEncoder_encode(_)
\* new TextEncoder().encode(text)
TextEncoder_encode(text) ==
    IF text = << >> THEN << >>
    ELSE Utf8(Head(text)) \o TextEncoder_encode(Tail(text))

\* handleDecrypt, line 351: the content id passed to seal_approve for the
\* NFT whose url is encryptedBlobId
contentIdBytes(encryptedBlobId) == TextEncoder_encode(encryptedBlobId)

\* C27: for every encrypted blob the publisher has stored, the identity it
\* was encrypted under is the content id handleDecrypt passes to
\* seal_approve for that blob, and the encrypted blobs of different files
\* were encrypted under different identities.
C27_EncryptionIdIsGateId ==
    /\ \A data \in walrus :
          data.encrypted => fromHex(data.id) = contentIdBytes(BlobIdOf(data))
    /\ \A d1 \in walrus, d2 \in walrus :
          (d1.encrypted /\ d2.encrypted /\ d1.file # d2.file) => d1.id # d2.id

\* ------------------------------------------------------------------------
\* Coin selection
\* ------------------------------------------------------------------------
HoldsSufficientCoin(coins) == \E i \in DOMAIN coins : coins[i] >= required

\* C28: when handleDecrypt waits for the coin list and the list it gets
\* holds a coin of at least 5,000,000, in whatever position, the coin it
\* puts into the transaction has at least 5,000,000, and the evaluation of
\* that transaction for an unpaid pair exits with PaymentAccepted.
C28_SufficientCoinIsPresented ==
    run.pc = "getCoins" =>
        \A coins \in CoinLists :
            HoldsSufficientCoin(coins) =>
                LET next == AfterGetCoins(card, run, Resolved(coins))
                IN  /\ next.run.locals.paymentCoin.value >= required
                    /\ ~CardPaid =>
                          seal_approve(CardContent, registries[PAYMENT_REGISTRY_ID],
                                       next.run.locals.paymentCoin, Account).exit
                              = "PaymentAccepted"

\* ------------------------------------------------------------------------
\* seal_approve: aborts
\* ------------------------------------------------------------------------
\* C29: every execution of seal_approve, whatever registry state, content
\* id, sender and coin value it meets, returns (AlreadyPaid or
\* PaymentAccepted) or aborts with ENotPaid, never with an abort of
\* table::add or table::borrow_mut, and it aborts exactly when the pair was
\* unpaid and the coin holds less than 5,000,000.
C29_AbortsOnlyForNonPayment ==
    [][ \A i \in DOMAIN txs : ExecutedIn(i) =>
            /\ txs'[i].exit \in {"AlreadyPaid", "PaymentAccepted", ENotPaid}
            /\ txs'[i].exit = ENotPaid <=>
                   /\ ~Paid(txs[i].registry, txs[i].content_id, txs[i].sender)
                   /\ txs[i].fee_coin.value < required ]_vars

C29_Witness ==
    \E i \in DOMAIN txs, j \in DOMAIN txs :
        /\ txs[i].registry = txs[j].registry
        /\ txs[i].content_id = txs[j].content_id
        /\ txs[i].exit = "PaymentAccepted"
        /\ txs[j].exit = ENotPaid
        /\ txs[j].fee_coin.value = 4999999
        /\ DOMAIN registries[txs[i].registry].payments[txs[i].content_id] = {txs[i].sender}

\* ------------------------------------------------------------------------
\* handleDecrypt: per-attempt resources
\* ------------------------------------------------------------------------
\* the configuration guards of lines 236-244 fail
GuardsFail(cfg) ==
    ~cfg.sealClient \/ ~cfg.encryptedBlobId \/ ~cfg.account \/ ~cfg.registryId

\* C30: while no invocation of handleDecrypt is in flight, whether none
\* has run or the last one ended with the image or with a throw at any
\* stage, isDecrypting is false and the card has no 'unhandledrejection'
\* listener on window; while one is in flight isDecrypting is true and
\* exactly its one listener is registered; and a click that fails the
\* configuration guards only sets an error message, leaving isDecrypting
\* and the listeners as they are.
C30_ResourcesReleased ==
    /\ run.pc = "idle" => (~card.isDecrypting /\ card.listeners = 0)
    /\ run.pc # "idle" => (card.isDecrypting /\ card.listeners = 1)
    /\ (run.pc = "idle" /\ GuardsFail(config)) =>
          LET next == Start(card, run, config)
          IN  /\ next.run.pc = "idle"
              /\ next.run.trace = << >>
              /\ next.card.decryptError # NoMessage
              /\ next.card = [card EXCEPT !.decryptError = next.card.decryptError]

C30_Witness ==
    /\ run.n = 2
    /\ run.pc = "idle"
    /\ run.failure = "DecryptionFailed"
    /\ run.trace[Len(run.trace)] = "sealClient.decrypt"
    /\ ~card.isDecrypting
    /\ card.listeners = 0

\* C31: at most one invocation of handleDecrypt per card is in flight: an
\* invocation starts only while no earlier invocation of the card is
\* suspended at an await, and while one is suspended the "Decrypt & View"
\* button is disabled or not rendered, so the card never has two
\* concurrent SessionKey / signature / decrypt sequences.
C31_OneInvocationInFlight ==
    [][ /\ run'.n # run.n => run.pc = "idle"
        /\ run'.pc # "idle" => ~DecryptButton(card', config') ]_vars

C31_Witness ==
    /\ run.n = 1
    /\ run.pc = "signPersonalMessage"
    /\ card.mounted
    /\ config.sealClient
    /\ card.decryptedImageUrl = ""
    /\ card.isDecrypting

\* C32: a card never holds a result and an error together: whenever
\* decryptedImageUrl is non-empty decryptError is empty; an invocation that
\* passes the guards and suspends has cleared decryptError, an invocation
\* that ends with a failure leaves decryptedImageUrl empty, and "Hide Image"
\* leaves both empty.
C32_ResultAndErrorExclusive ==
    [][ /\ card'.decryptedImageUrl # "" => card'.decryptError = NoMessage
        /\ (run'.n # run.n /\ run'.pc # "idle") => card'.decryptError = NoMessage
        /\ (run.pc # "idle" /\ run'.pc = "idle" /\ run'.failure # "none") =>
               (card'.decryptedImageUrl = "" /\ card'.decryptError # NoMessage)
        /\ (card.decryptedImageUrl # "" /\ card'.decryptedImageUrl = "") =>
               card'.decryptError = NoMessage ]_vars

\* the card's second invocation has published the image
C32_Witness ==
    /\ run.n = 2
    /\ run.pc = "idle"
    /\ run.failure = "none"
    /\ card.decryptedImageUrl # ""
    /\ card.decryptError = NoMessage

\* ------------------------------------------------------------------------
\* NFTMintForm: overlapping submissions and selections
\* ------------------------------------------------------------------------
\* C33: a mint transaction is handed to the wallet only while no
\* transaction made from the same form data is still pending there, that
\* is, has been handed over and has not had its onSuccess or onError run.
C33_NoSecondMintWhilePending ==
    [][ Len(form'.pending) > Len(form.pending) =>
            \A i \in DOMAIN form.pending :
                form.pending[i] # form'.pending[Len(form'.pending)] ]_vars

\* every selection has had its reader.onload and its upload has succeeded,
\* and no mint has reset the form
SelectionsSettled ==
    /\ form.uploads # << >>
    /\ \A i \in DOMAIN form.uploads :
          form.uploads[i].loaded /\ form.uploads[i].pc = "done"
    /\ form.pending = << >>
    /\ nfts = << >>

\* C34: once every FileReader has called onload and every run of
\* uploadFileToWalrus has ended with a successful upload, in whatever order
\* they did, formData.imageUrl and blobId are both the blob id the
\* publisher returned for the most recently selected file.
C34_ReferenceIsLastSelectedFile ==
    SelectionsSettled =>
        LET last == form.uploads[Len(form.uploads)]
        IN  /\ last.file = form.file
            /\ form.imageUrl = last.blobId
            /\ form.blobId = last.blobId

\* ------------------------------------------------------------------------
\* PaymentRegistry: the stored flag
\* ------------------------------------------------------------------------
\* C35: every record stored in a PaymentRegistry has the value true, so for
\* every registry, content id and address has_paid, which tests whether the
\* address is a key of the inner table, returns true exactly when a flag is
\* stored for the pair and that flag is true.
C35_StoredFlagIsTrue ==
    \A r \in DOMAIN registries : \A c \in ContentIds, a \in Addresses :
        LET payments == registries[r].payments
            stored == c \in DOMAIN payments /\ a \in DOMAIN payments[c]
            answer == has_paid(registries[r], c, a)
        IN  /\ stored => payments[c][a] = TRUE
            /\ answer.exit = "return"
            /\ answer.ret = (stored /\ payments[c][a])

\* a registry with a record for one address and, in the same inner table,
\* none for the other
C35_Witness ==
    \E r \in DOMAIN registries : \E c \in ContentIds :
        /\ c \in DOMAIN registries[r].payments
        /\ DOMAIN registries[r].payments[c] = {"0xA"}
        /\ registries[r].payments[c]["0xA"] = TRUE
        /\ has_paid(registries[r], c, "0xA").ret
        /\ ~has_paid(registries[r], c, "0xB").ret

====
